---- MODULE Spec2Model ----
(***************************************************************************)
(* ByteStream (src/index.ts): a cursor over a fixed ArrayBuffer, read and  *)
(* written through a DataView.  The state is the ArrayBuffer's bytes, the  *)
(* cursor's offset and its byte-order flag; every public method is one     *)
(* action.  A call that throws is a step too: what the method assigned     *)
(* before the throw stays assigned.                                        *)
(*                                                                         *)
(* Numbers are kept exactly: a JS number or bigint is a sign and a         *)
(* little-endian base-256 magnitude, so that 2^64 - 1 and -2^63 are        *)
(* values of the model, and the DataView conversions are computed on the   *)
(* digits (truncation to the width, two's complement, byte order).         *)
(***************************************************************************)
EXTENDS Integers, Sequences, FiniteSets, TLC

\* Calls made on one ByteStream in a behaviour.
MaxOps == 3

VARIABLES
    mem,            \* the ArrayBuffers: "buf" under dataView, "ret" the one readBytes last made
    offset,         \* this.offset (a JS number: may leave 0..byteLength)
    isLittleEndian, \* this.isLittleEndian
    ctor,           \* the constructor's arguments
    held,           \* what the caller holds from the last readBytes: an object of mem and a range of it
    last,           \* the last call: its name, how it ended, what it returned
    calls           \* the calls so far, with their arguments

vars == <<mem, offset, isLittleEndian, ctor, held, last, calls>>

----------------------------------------------------------------------------
(* Numbers *)

RECURSIVE Digits(_)
\* The base-256 digits of a natural number, least significant first.
Digits(n) == IF n = 0 THEN <<>> ELSE <<n % 256>> \o Digits(n \div 256)

\* A number given as a (small) integer literal.
Num(i) == IF i < 0 THEN [neg |-> TRUE, mag |-> Digits(-i)]
                   ELSE [neg |-> FALSE, mag |-> Digits(i)]

\* A number given by its magnitude's digits, most significant first (as a hex literal reads).
Hex(neg, msbFirst) ==
    [neg |-> neg, mag |-> [i \in 1 .. Len(msbFirst) |-> msbFirst[Len(msbFirst) + 1 - i]]]

Zero == Num(0)

Reverse(s) == [i \in 1 .. Len(s) |-> s[Len(s) + 1 - i]]

RECURSIVE Trim(_)
\* Drop the most significant zero digits.
Trim(d) == IF d = <<>> THEN <<>>
           ELSE IF d[Len(d)] = 0 THEN Trim(SubSeq(d, 1, Len(d) - 1))
           ELSE d

\* The w least significant digits of d (modulo 2^(8w)), zero-extended.
Pad(d, w) == [i \in 1 .. w |-> IF i <= Len(d) THEN d[i] ELSE 0]

Invert(d) == [i \in 1 .. Len(d) |-> 255 - d[i]]

RECURSIVE AddOne(_)
\* d + 1 modulo 2^(8 * Len(d)).
AddOne(d) == IF d = <<>> THEN <<>>
             ELSE IF d[1] = 255 THEN <<0>> \o AddOne(Tail(d))
             ELSE <<d[1] + 1>> \o Tail(d)

TwosNegate(d) == AddOne(Invert(d))

\* ECMAScript NumericToRawBytes, little-endian order: v modulo 2^(8w) in w bytes.
NumericToRawBytes(v, w) ==
    IF v.neg THEN TwosNegate(Pad(v.mag, w)) ELSE Pad(v.mag, w)

\* ECMAScript RawBytesToNumeric on little-endian ordered bytes.
RawBytesToNumeric(raw, signed) ==
    IF signed /\ raw # <<>> /\ raw[Len(raw)] >= 128
    THEN [neg |-> TRUE, mag |-> Trim(TwosNegate(raw))]
    ELSE [neg |-> FALSE, mag |-> Trim(raw)]

----------------------------------------------------------------------------
(* DataView and ArrayBuffer *)

\* this.dataView.buffer.byteLength
BufferByteLength == Len(mem.buf)

\* this.dataView.byteLength: the view is always made over the whole buffer.
DataViewByteLength == Len(mem.buf)

\* DataView get/set: ToIndex(requestIndex) and the view's range, else RangeError.
InView(idx, w) == idx >= 0 /\ idx + w <= DataViewByteLength

\* DataView.prototype.getXxx(idx, littleEndian)
GetViewValue(idx, w, signed, littleEndian) ==
    LET raw == SubSeq(mem.buf, idx + 1, idx + w)
    IN  RawBytesToNumeric(IF littleEndian THEN raw ELSE Reverse(raw), signed)

\* DataView.prototype.setXxx(idx, v, littleEndian): the buffer after it.
SetViewValue(idx, w, v, littleEndian) ==
    LET raw == NumericToRawBytes(v, w)
        ord == IF littleEndian THEN raw ELSE Reverse(raw)
    IN  [i \in 1 .. Len(mem.buf) |->
            IF i > idx /\ i <= idx + w THEN ord[i - idx] ELSE mem.buf[i]]

\* The byte order the write methods hand to DataView.setXxx: they pass no
\* littleEndian argument, and DataView takes a missing one as false.
WriteLittleEndian == FALSE

Max(a, b) == IF a >= b THEN a ELSE b
Min(a, b) == IF a <= b THEN a ELSE b

\* ArrayBuffer.prototype.slice's relative index.
RelIndex(i, len) == IF i < 0 THEN Max(len + i, 0) ELSE Min(i, len)

NoRef == [obj |-> "none", start |-> 0, len |-> 0]

\* An aliasing readBytes: a view of the range, not a copy.
SliceAliased(begin, end) ==
    LET first == RelIndex(begin, Len(mem.buf))
        final == RelIndex(end, Len(mem.buf))
    IN  [mem |-> [mem EXCEPT !.ret = <<>>],
         ref |-> [obj |-> "buf", start |-> first, len |-> Max(final - first, 0)]]

\* this.dataView.buffer.slice(begin, end): a new ArrayBuffer holding a copy.
ArrayBufferSlice(begin, end) ==
    LET first == RelIndex(begin, Len(mem.buf))
        final == RelIndex(end, Len(mem.buf))
        n     == Max(final - first, 0)
    IN  [mem |-> [mem EXCEPT !.ret = SubSeq(mem.buf, first + 1, first + n)],
         ref |-> [obj |-> "ret", start |-> 0, len |-> n]]

\* The bytes the caller sees in what readBytes returned.
HeldBytes == IF held.obj = "none" THEN <<>>
             ELSE SubSeq(mem[held.obj], held.start + 1, held.start + held.len)

----------------------------------------------------------------------------
(* Inputs *)

Zeros(n) == [i \in 1 .. n |-> 0]

\* Constructor arguments: a size, an ArrayBuffer, or a Uint8Array over
\* bytes [byteOffset, byteOffset + length) of its underlying buffer.
CtorArgs ==
    {[form |-> "size", bytes |-> Zeros(n), byteOffset |-> 0, length |-> n] : n \in {1, 8, 9}}
    \cup {[form |-> "arraybuffer", bytes |-> <<17, 34>>, byteOffset |-> 0, length |-> 2]}
    \cup {[form |-> "u8array", bytes |-> <<160, 161, 162>>, byteOffset |-> 1, length |-> 2]}

Endians == {"big", "little"}

\* Values written, per type: all representable in the type.
Values(type) ==
    CASE type = "U8"  -> {Num(18), Num(255)}
      [] type = "S8"  -> {Num(-128), Num(52)}
      [] type = "U16" -> {Num(4660), Num(65535)}                   \* 0x1234, 2^16 - 1
      [] type = "S16" -> {Num(-2)}
      [] type = "U32" -> {Hex(FALSE, <<18, 52, 86, 120>>),         \* 0x12345678
                          Hex(FALSE, <<255, 255, 255, 254>>)}      \* 0xFFFFFFFE
      [] type = "S32" -> {Hex(TRUE, <<128, 0, 0, 0>>)}             \* -2^31
      [] type = "U64" -> {Hex(FALSE, <<1, 2, 3, 4, 5, 6, 7, 8>>),  \* 0x0102030405060708
                          Hex(FALSE, <<255, 255, 255, 255, 255, 255, 255, 255>>)} \* 2^64 - 1
      [] type = "S64" -> {Hex(TRUE, <<128, 0, 0, 0, 0, 0, 0, 0>>), \* -2^63
                          Num(-1)}

ReadBytesArgs == {-1, 1, 2}

WriteBytesArgs == {<<171>>, <<300, 2, 3>>}

Width(type) ==
    CASE type \in {"U8", "S8"} -> 1
      [] type \in {"U16", "S16"} -> 2
      [] type \in {"U32", "S32"} -> 4
      [] type \in {"U64", "S64"} -> 8

----------------------------------------------------------------------------
(* The constructor *)

Init ==
    \E a \in CtorArgs, endian \in Endians :
        \* a Uint8Array's .buffer is the whole underlying buffer
        /\ mem = [buf |-> a.bytes, ret |-> <<>>]
        /\ isLittleEndian = (endian = "little")
        /\ offset = 0
        /\ ctor = a
        /\ held = NoRef
        /\ last = [op |-> "constructor", outcome |-> "ok", value |-> Zero]
        /\ calls = <<>>

----------------------------------------------------------------------------
(* A call's record *)

CanCall == Len(calls) < MaxOps

Call(op, type, v, n, bytes) == [op |-> op, type |-> type, v |-> v, n |-> n, bytes |-> bytes]

\* The call ends: outcome is "ok", "sentinel", "capacityError" (the Error the
\* method throws) or "rangeError" (the RangeError DataView or TypedArray throws).
Ends(call, outcome, value) ==
    /\ last' = [op |-> call.op, outcome |-> outcome, value |-> value]
    /\ calls' = Append(calls, call)

\* A scalar read whose guard passed and that reads before it moves the offset.
ReadAt(call, w, signed) ==
    IF InView(offset, w)
    THEN /\ offset' = offset + w
         /\ Ends(call, "ok", GetViewValue(offset, w, signed, isLittleEndian))
    ELSE /\ offset' = offset
         /\ Ends(call, "rangeError", Zero)

\* A scalar write whose guard passed and that writes before it moves the offset.
WriteAt(call, w) ==
    IF InView(offset, w)
    THEN /\ mem' = [mem EXCEPT !.buf = SetViewValue(offset, w, call.v, WriteLittleEndian)]
         /\ offset' = offset + w
         /\ Ends(call, "ok", Zero)
    ELSE /\ UNCHANGED <<mem, offset>>
         /\ Ends(call, "rangeError", Zero)

Sentinel(call) == /\ offset' = offset
                  /\ Ends(call, "sentinel", Zero)

CapacityError(call) == /\ UNCHANGED <<mem, offset>>
                       /\ Ends(call, "capacityError", Zero)

----------------------------------------------------------------------------
(* Reads *)

readU8 ==
    /\ CanCall
    /\ LET call == Call("readU8", "U8", Zero, 0, <<>>)
       IN  \* getUint8(this.offset++): the offset moves before DataView checks the index
           /\ offset' = offset + 1
           /\ IF InView(offset, 1)
              THEN Ends(call, "ok", GetViewValue(offset, 1, FALSE, isLittleEndian))
              ELSE Ends(call, "rangeError", Zero)
    /\ UNCHANGED <<mem, isLittleEndian, ctor, held>>

readS8 ==
    /\ CanCall
    /\ LET call == Call("readS8", "S8", Zero, 0, <<>>)
       IN  IF offset >= BufferByteLength
           THEN Sentinel(call)
           ELSE \* getInt8(this.offset++)
                /\ offset' = offset + 1
                /\ IF InView(offset, 1)
                   THEN Ends(call, "ok", GetViewValue(offset, 1, TRUE, isLittleEndian))
                   ELSE Ends(call, "rangeError", Zero)
    /\ UNCHANGED <<mem, isLittleEndian, ctor, held>>

readU16 ==
    /\ CanCall
    /\ LET call == Call("readU16", "U16", Zero, 0, <<>>)
       IN  IF offset + 1 >= BufferByteLength
           THEN Sentinel(call)
           ELSE ReadAt(call, 2, FALSE)
    /\ UNCHANGED <<mem, isLittleEndian, ctor, held>>

readS16 ==
    /\ CanCall
    /\ LET call == Call("readS16", "S16", Zero, 0, <<>>)
       IN  IF offset + 1 >= BufferByteLength
           THEN Sentinel(call)
           ELSE ReadAt(call, 2, TRUE)
    /\ UNCHANGED <<mem, isLittleEndian, ctor, held>>

readU32 ==
    /\ CanCall
    /\ LET call == Call("readU32", "U32", Zero, 0, <<>>)
       IN  IF offset + 3 >= BufferByteLength
           THEN Sentinel(call)
           ELSE ReadAt(call, 4, FALSE)
    /\ UNCHANGED <<mem, isLittleEndian, ctor, held>>

readS32 ==
    /\ CanCall
    /\ LET call == Call("readS32", "S32", Zero, 0, <<>>)
       IN  IF offset + 3 >= BufferByteLength
           THEN Sentinel(call)
           ELSE ReadAt(call, 4, TRUE)
    /\ UNCHANGED <<mem, isLittleEndian, ctor, held>>

readU64 ==
    /\ CanCall
    /\ LET call == Call("readU64", "U64", Zero, 0, <<>>)
       IN  IF offset + 7 > BufferByteLength
           THEN Sentinel(call)
           ELSE ReadAt(call, 8, FALSE)
    /\ UNCHANGED <<mem, isLittleEndian, ctor, held>>

readS64 ==
    /\ CanCall
    /\ LET call == Call("readS64", "S64", Zero, 0, <<>>)
       IN  IF offset + 7 > BufferByteLength
           THEN Sentinel(call)
           ELSE ReadAt(call, 8, TRUE)
    /\ UNCHANGED <<mem, isLittleEndian, ctor, held>>

readBytes(n) ==
    /\ CanCall
    /\ LET call == Call("readBytes", "bytes", Zero, n, <<>>)
       IN  IF offset + n > DataViewByteLength
           THEN \* new ArrayBuffer(0)
                /\ mem' = [mem EXCEPT !.ret = <<>>]
                /\ held' = [obj |-> "ret", start |-> 0, len |-> 0]
                /\ Sentinel(call)
           ELSE LET made == ArrayBufferSlice(offset, offset + n)
                IN  /\ mem' = made.mem
                    /\ held' = made.ref
                    /\ offset' = offset + n
                    /\ Ends(call, "ok", Zero)
    /\ UNCHANGED <<isLittleEndian, ctor>>

----------------------------------------------------------------------------
(* Writes *)

writeU8(value) ==
    /\ CanCall
    /\ LET call == Call("writeU8", "U8", value, 0, <<>>)
       IN  IF offset >= BufferByteLength
           THEN CapacityError(call)
           ELSE \* setUint8(this.offset++, value)
                /\ offset' = offset + 1
                /\ IF InView(offset, 1)
                   THEN /\ mem' = [mem EXCEPT !.buf = SetViewValue(offset, 1, value, WriteLittleEndian)]
                        /\ Ends(call, "ok", Zero)
                   ELSE /\ mem' = mem
                        /\ Ends(call, "rangeError", Zero)
    /\ UNCHANGED <<isLittleEndian, ctor, held>>

writeS8(value) ==
    /\ CanCall
    /\ LET call == Call("writeS8", "S8", value, 0, <<>>)
       IN  IF offset >= BufferByteLength
           THEN CapacityError(call)
           ELSE \* setInt8(this.offset++, value)
                /\ offset' = offset + 1
                /\ IF InView(offset, 1)
                   THEN /\ mem' = [mem EXCEPT !.buf = SetViewValue(offset, 1, value, WriteLittleEndian)]
                        /\ Ends(call, "ok", Zero)
                   ELSE /\ mem' = mem
                        /\ Ends(call, "rangeError", Zero)
    /\ UNCHANGED <<isLittleEndian, ctor, held>>

writeU16(value) ==
    /\ CanCall
    /\ LET call == Call("writeU16", "U16", value, 0, <<>>)
       IN  IF offset + 1 > BufferByteLength
           THEN CapacityError(call)
           ELSE WriteAt(call, 2)
    /\ UNCHANGED <<isLittleEndian, ctor, held>>

writeS16(value) ==
    /\ CanCall
    /\ LET call == Call("writeS16", "S16", value, 0, <<>>)
       IN  IF offset + 1 > BufferByteLength
           THEN CapacityError(call)
           ELSE WriteAt(call, 2)
    /\ UNCHANGED <<isLittleEndian, ctor, held>>

writeU32(value) ==
    /\ CanCall
    /\ LET call == Call("writeU32", "U32", value, 0, <<>>)
       IN  IF offset + 3 > BufferByteLength
           THEN CapacityError(call)
           ELSE WriteAt(call, 4)
    /\ UNCHANGED <<isLittleEndian, ctor, held>>

writeS32(value) ==
    /\ CanCall
    /\ LET call == Call("writeS32", "S32", value, 0, <<>>)
       IN  IF offset + 3 > BufferByteLength
           THEN CapacityError(call)
           ELSE WriteAt(call, 4)
    /\ UNCHANGED <<isLittleEndian, ctor, held>>

writeU64(value) ==
    /\ CanCall
    /\ LET call == Call("writeU64", "U64", value, 0, <<>>)
       IN  IF offset + 7 > BufferByteLength
           THEN CapacityError(call)
           ELSE WriteAt(call, 8)
    /\ UNCHANGED <<isLittleEndian, ctor, held>>

writeS64(value) ==
    /\ CanCall
    /\ LET call == Call("writeS64", "S64", value, 0, <<>>)
       IN  IF offset + 7 > BufferByteLength
           THEN CapacityError(call)
           ELSE WriteAt(call, 8)
    /\ UNCHANGED <<isLittleEndian, ctor, held>>

\* Uint8Array element conversion of a number[] element (ToUint8).
ToUint8(x) == x % 256

writeBytes(value) ==
    /\ CanCall
    /\ LET call == Call("writeBytes", "bytes", Zero, 0, value)
           n    == Len(value)
       IN  IF offset + n > DataViewByteLength
           THEN CapacityError(call)
           ELSE \* temp.set(valueAsU8Array, this.offset): RangeError on a negative
                \* offset or a source that does not fit, before any byte is stored
                IF offset < 0 \/ n + offset > BufferByteLength
                THEN /\ UNCHANGED <<mem, offset>>
                     /\ Ends(call, "rangeError", Zero)
                ELSE /\ mem' = [mem EXCEPT !.buf =
                                  [i \in 1 .. Len(mem.buf) |->
                                      IF i > offset /\ i <= offset + n
                                      THEN ToUint8(value[i - offset])
                                      ELSE mem.buf[i]]]
                     /\ offset' = offset + n
                     /\ Ends(call, "ok", Zero)
    /\ UNCHANGED <<isLittleEndian, ctor, held>>

----------------------------------------------------------------------------
(* reset, and the caller's own store into what readBytes returned *)

\* A reset that also clears the buffer.
resetClearing ==
    /\ CanCall
    /\ offset' = 0
    /\ mem' = [mem EXCEPT !.buf = Zeros(Len(mem.buf))]
    /\ Ends(Call("reset", "-", Zero, 0, <<>>), "ok", Zero)
    /\ UNCHANGED <<isLittleEndian, ctor, held>>

reset ==
    /\ CanCall
    /\ offset' = 0
    /\ Ends(Call("reset", "-", Zero, 0, <<>>), "ok", Zero)
    /\ UNCHANGED <<mem, isLittleEndian, ctor, held>>

\* The caller stores into the first byte of the ArrayBuffer readBytes returned.
mutateReturned ==
    /\ CanCall
    /\ held.obj # "none"
    /\ held.len > 0
    /\ mem' = [mem EXCEPT ![held.obj][held.start + 1] = (@ + 1) % 256]
    /\ Ends(Call("mutateReturned", "-", Zero, 0, <<>>), "ok", Zero)
    /\ UNCHANGED <<offset, isLittleEndian, ctor, held>>

----------------------------------------------------------------------------

Next ==
    \/ readU8
    \/ readS8
    \/ readU16
    \/ readS16
    \/ readU32
    \/ readS32
    \/ readU64
    \/ readS64
    \/ \E n \in ReadBytesArgs : readBytes(n)
    \/ \E v \in Values("U8") : writeU8(v)
    \/ \E v \in Values("S8") : writeS8(v)
    \/ \E v \in Values("U16") : writeU16(v)
    \/ \E v \in Values("S16") : writeS16(v)
    \/ \E v \in Values("U32") : writeU32(v)
    \/ \E v \in Values("S32") : writeS32(v)
    \/ \E v \in Values("U64") : writeU64(v)
    \/ \E v \in Values("S64") : writeS64(v)
    \/ \E b \in WriteBytesArgs : writeBytes(b)
    \/ reset
    \/ mutateReturned

Spec == Init /\ [][Next]_vars

----------------------------------------------------------------------------
(* What the claims speak of *)

ScalarReads == {"readU8", "readS8", "readU16", "readS16", "readU32", "readS32", "readU64", "readS64"}
ScalarWrites == {"writeU8", "writeS8", "writeU16", "writeS16", "writeU32", "writeS32", "writeU64", "writeS64"}
Reads == ScalarReads \cup {"readBytes"}
Writes == ScalarWrites \cup {"writeBytes"}
Failures == {"capacityError", "rangeError"}

\* The width of a call: of its type, n for readBytes(n), the input's length for writeBytes.
CallWidth(call) ==
    CASE call.op = "readBytes" -> call.n
      [] call.op = "writeBytes" -> Len(call.bytes)
      [] OTHER -> Width(call.type)

\* The step is a call of one of ops (every step appends the call it makes).
Called(ops) == calls' # calls /\ last'.op \in ops

\* C1: after every operation, however it ends, 0 <= offset <= buffer length.
C1_OffsetInBounds == 0 <= offset /\ offset <= Len(mem.buf)

\* C2: on a fresh cursor with room for T, write<T>(v); reset(); read<T>() returns v,
\* for every width and both byte orders.
C2_RoundTrip ==
    ( /\ Len(calls) = 3
      /\ calls[1].op \in ScalarWrites
      /\ Len(ctor.bytes) >= Width(calls[1].type)
      /\ calls[2].op = "reset"
      /\ calls[3].op \in ScalarReads
      /\ calls[3].type = calls[1].type )
    => (last.outcome = "ok" /\ last.value = calls[1].v)

\* C3: a 16/32/64-bit write that stores its bytes stores them least significant
\* byte first on a little-endian cursor and most significant first on a big-endian one.
C3_WriteByteOrder ==
    [][ (Called(ScalarWrites) /\ last'.outcome = "ok" /\ Width(calls'[Len(calls')].type) > 1)
        => LET c == calls'[Len(calls')]
               w == Width(c.type)
               stored == SubSeq(mem'.buf, offset + 1, offset + w)
           IN  stored = IF isLittleEndian THEN NumericToRawBytes(c.v, w)
                                          ELSE Reverse(NumericToRawBytes(c.v, w)) ]_vars

\* C4: a write of width w issued when offset + w exceeds the buffer length fails
\* with the capacity error, and with no other failure.
C4_CapacityError ==
    [][ (Called(Writes) /\ offset + CallWidth(calls'[Len(calls')]) > Len(mem.buf))
        => last'.outcome = "capacityError" ]_vars

\* C5: a write that fails, with whatever error, changes no byte of the buffer and
\* leaves offset as it was.
C5_FailedWriteAtomic ==
    [][ (Called(Writes) /\ last'.outcome \in Failures)
        => (mem'.buf = mem.buf /\ offset' = offset) ]_vars

\* C6: a read other than readU8, of width w, issued when offset + w exceeds the
\* buffer length returns its sentinel, raises nothing, and leaves offset unchanged.
C6_ReadSentinel ==
    [][ (Called(Reads \ {"readU8"}) /\ offset + CallWidth(calls'[Len(calls')]) > Len(mem.buf))
        => ( /\ last'.outcome = "sentinel"
             /\ last'.value = Zero
             /\ (last'.op = "readBytes" => HeldBytes' = <<>>)
             /\ offset' = offset ) ]_vars

\* C7: a read or write of width w that succeeds moves offset by exactly w; one
\* that fails or takes the sentinel path leaves offset where it was.
C7_OffsetMonotonic ==
    [][ Called(Reads \cup Writes)
        => IF last'.outcome = "ok"
           THEN offset' = offset + CallWidth(calls'[Len(calls')])
           ELSE offset' = offset ]_vars

\* C8: a cursor made from a Uint8Array view has exactly the view's bytes as its
\* buffer: the view's length, and a first readU8() returning the view's element 0.
C8_ViewAdopted ==
    ctor.form = "u8array"
    => ( /\ Len(mem.buf) = ctor.length
         /\ (Len(calls) = 1 /\ last.op = "readU8")
            => (last.outcome = "ok" /\ last.value = Num(ctor.bytes[ctor.byteOffset + 1])) )

\* C9: what a successful readBytes(n) returned is independent of the cursor's
\* buffer: the caller's store into it changes no byte of the buffer, and a write
\* through the cursor changes no byte of it.
C9_CopyIsolation ==
    [][ /\ Called({"mutateReturned"}) => mem'.buf = mem.buf
        /\ Called(Writes) => HeldBytes' = HeldBytes ]_vars

\* C9's case: the caller stored into bytes a successful readBytes returned, which
\* now differ from the buffer's bytes they were copied from.
C9_Witness ==
    /\ last.op = "mutateReturned"
    /\ held.len > 0
    /\ \E i \in 1 .. Len(calls) - 1 : calls[i].op = "readBytes"
    /\ \E k \in 0 .. Len(mem.buf) - held.len :
          HeldBytes # SubSeq(mem.buf, k + 1, k + held.len)

\* C9's other case: after readBytes(2) and reset(), writeU16 stored over the range
\* the returned bytes were copied from, and they kept their values.
C9_WriteOverReturned ==
    /\ Len(calls) = 3
    /\ calls[1].op = "readBytes" /\ calls[1].n = 2
    /\ calls[2].op = "reset"
    /\ calls[3].op = "writeU16" /\ last.outcome = "ok"
    /\ HeldBytes # SubSeq(mem.buf, 1, 2)

\* C10: reset() sets offset to 0 and leaves the buffer's bytes and length and the
\* byte order as they were; a second reset() in a row changes nothing the first left.
C10_Reset ==
    [][ Called({"reset"})
        => ( /\ offset' = 0
             /\ mem' = mem
             /\ isLittleEndian' = isLittleEndian
             /\ (last.op = "reset"
                 => <<mem, offset, isLittleEndian, held>>' = <<mem, offset, isLittleEndian, held>>) ) ]_vars

\* C10's case: reset() twice in a row after a write that moved the offset.
C10_Witness ==
    /\ Len(calls) = 3
    /\ calls[1].op = "writeU16" /\ calls[1].v = Num(4660)
    /\ calls[2].op = "reset"
    /\ calls[3].op = "reset"
    /\ offset = 0
    /\ mem.buf # Zeros(Len(mem.buf))

====
